---- MODULE Spec2Model ----
(***************************************************************************)
(* A model of the Dublin property / planning-case pipeline:                *)
(*   merger.py               merge_csv_files                               *)
(*   csv_processor.py        clean_address, get_coordinates, process_csv   *)
(*   csv_processor_cases.py  clean_address_for_planning, get_coordinates,  *)
(*                           process_planning_cases                        *)
(*   scrapping_board_na_pleanala.py  scrape_cases_from_url, main           *)
(*                                                                         *)
(* Text is a sequence of one-character strings.  The regular expressions   *)
(* of the source are written as data (a sequence of nodes) and run by a    *)
(* backtracking matcher with the priorities of Python's re module, so      *)
(* every pattern below can be read against the pattern in the source.      *)
(***************************************************************************)
EXTENDS Integers, Sequences, FiniteSets, TLC

\* ------------------------------------------------------------------ text

UpperLetters ==
    <<"A","B","C","D","E","F","G","H","I","J","K","L","M",
      "N","O","P","Q","R","S","T","U","V","W","X","Y","Z">>

LowerLetters ==
    <<"a","b","c","d","e","f","g","h","i","j","k","l","m",
      "n","o","p","q","r","s","t","u","v","w","x","y","z">>

UpperSet == { UpperLetters[i] : i \in DOMAIN UpperLetters }

LowerSet == { LowerLetters[i] : i \in DOMAIN LowerLetters }

DigitSet == {"0","1","2","3","4","5","6","7","8","9"}

SpaceSet == {" ", "\t", "\n", "\r"}

WordSet == UpperSet \cup LowerSet \cup DigitSet \cup {"_"}

UpperMap ==
    [c \in LowerSet |-> UpperLetters[CHOOSE i \in DOMAIN LowerLetters : LowerLetters[i] = c]]

LowerMap ==
    [c \in UpperSet |-> LowerLetters[CHOOSE i \in DOMAIN UpperLetters : UpperLetters[i] = c]]

ToUpper(c) == IF c \in LowerSet THEN UpperMap[c] ELSE c

ToLower(c) == IF c \in UpperSet THEN LowerMap[c] ELSE c

\* str.upper()  (\o <<>>: the function, as a sequence)
Upper(s) == [i \in 1..Len(s) |-> ToUpper(s[i])] \o <<>>

\* str.lower()
Lower(s) == [i \in 1..Len(s) |-> ToLower(s[i])] \o <<>>

IsCased(c) == c \in UpperSet \cup LowerSet

\* str.title(): a cased character is upper-cased when the character before it
\* is not cased, and lower-cased otherwise.
Title(s) ==
    [i \in 1..Len(s) |->
        IF i > 1 /\ IsCased(s[i-1]) THEN ToLower(s[i]) ELSE ToUpper(s[i])] \o <<>>

\* str.strip()
RECURSIVE LStrip(_)
LStrip(s) == IF s # <<>> /\ Head(s) \in SpaceSet THEN LStrip(Tail(s)) ELSE s

RECURSIVE RStrip(_)
RStrip(s) ==
    IF s # <<>> /\ s[Len(s)] \in SpaceSet THEN RStrip(SubSeq(s, 1, Len(s) - 1)) ELSE s

Strip(s) == RStrip(LStrip(s))

\* s[p+1 ..] starts with w
StartsAt(s, p, w) ==
    /\ p + Len(w) <= Len(s)
    /\ \A i \in 1..Len(w) : s[p + i] = w[i]

\* Python's  w in s
Contains(s, w) == \E p \in 0..Len(s) : StartsAt(s, p, w)

\* str.find: the offset of the first occurrence of w in s (w occurs in s)
Find(s, w) == CHOOSE p \in 0..Len(s) :
    StartsAt(s, p, w) /\ \A q \in 0..(p - 1) : ~StartsAt(s, q, w)

\* str.endswith
EndsWith(s, w) == Len(w) <= Len(s) /\ StartsAt(s, Len(s) - Len(w), w)

\* s.split(w)[0]
SplitFirst(s, w) == IF Contains(s, w) THEN SubSeq(s, 1, Find(s, w)) ELSE s

RECURSIVE Join(_, _)
\* sep.join(parts)
Join(parts, sep) ==
    IF parts = <<>> THEN <<>>
    ELSE IF Len(parts) = 1 THEN parts[1]
    ELSE parts[1] \o sep \o Join(Tail(parts), sep)

\* ----------------------------------------------------- regular expressions
\* A pattern is a sequence of nodes.

Lit(c) == [t |-> "lit", c |-> c]

Str(w) == [i \in 1..Len(w) |-> Lit(w[i])]

\* .
AnyChar == [t |-> "any"]

\* [...] and, with neg, [^...]
Cls(set, neg) == [t |-> "cls", set |-> set, neg |-> neg]

\* \b
WordB == [t |-> "wordb"]

\* ^
Bol == [t |-> "bol"]

\* $
Eol == [t |-> "eol"]

\* a|b|...
Alt(alts) == [t |-> "alt", alts |-> alts]

\* node{min,max} of a one-character node; max = -1 is no limit; greedy or lazy
Rep(node, min, max, greedy) ==
    [t |-> "rep", node |-> node, min |-> min, max |-> max, greedy |-> greedy]

Star(node) == Rep(node, 0, -1, TRUE)

Plus(node) == Rep(node, 1, -1, TRUE)

Opt(node) == Rep(node, 0, 1, TRUE)

LazyStar(node) == Rep(node, 0, -1, FALSE)

\* ( ... ) as group k
Group(k, body) == <<[t |-> "open", k |-> k]>> \o body \o <<[t |-> "close", k |-> k]>>

NoCaps == [k \in 1..2 |-> <<-1, -1>>]

NoMatch == [ok |-> FALSE, end |-> 0, caps |-> NoCaps]

IsWordAt(s, i) == i >= 1 /\ i <= Len(s) /\ s[i] \in WordSet

CharMatches(n, c, ic) ==
    CASE n.t = "lit" -> IF ic THEN ToLower(n.c) = ToLower(c) ELSE n.c = c
      [] n.t = "any" -> c # "\n"
      [] n.t = "cls" ->
            LET in == IF ic THEN ToLower(c) \in n.set \/ ToUpper(c) \in n.set
                            ELSE c \in n.set
            IN  IF n.neg THEN ~in ELSE in
      [] OTHER -> FALSE

\* v is worked out once and body is given its value
With(v, body(_)) == CHOOSE r \in { body(x) : x \in {v} } : TRUE

\* how many characters of s after the first i match node, one after another
RunLength(node, s, i, ic) ==
    LET n == Len(s) - i
    IN  IF \A j \in 1..n : CharMatches(node, s[i + j], ic) THEN n
        ELSE (CHOOSE j \in 1..n :
                /\ ~CharMatches(node, s[i + j], ic)
                /\ \A q \in 1..(j - 1) : CharMatches(node, s[i + q], ic)) - 1

MaxOf(S) == CHOOSE x \in S : \A y \in S : y <= x

MinOf(S) == CHOOSE x \in S : \A y \in S : x <= y

RECURSIVE Match(_, _, _, _, _)
\* Match with its arguments worked out first
Call(re, s, i, caps, ic) ==
    CHOOSE r \in { Match(re1, s1, i1, caps1, ic) :
                     re1 \in {re}, s1 \in {s}, i1 \in {i}, caps1 \in {caps} } : TRUE

\* re's matcher: the pattern re (what is left of it) against s after i
\* characters, alternatives and repetitions tried in re's order of priority:
\* a greedy repetition takes the most characters the rest of the pattern
\* allows, a lazy one the fewest.
Match(re, s, i, caps, ic) ==
    IF re = <<>> THEN [ok |-> TRUE, end |-> i, caps |-> caps]
    ELSE
    LET n == Head(re)
        rest == Tail(re)
    IN  CASE n.t \in {"lit", "any", "cls"} ->
                IF i < Len(s) /\ CharMatches(n, s[i + 1], ic)
                THEN Call(rest, s, i + 1, caps, ic)
                ELSE NoMatch
          [] n.t = "wordb" ->
                IF IsWordAt(s, i) # IsWordAt(s, i + 1)
                THEN Call(rest, s, i, caps, ic)
                ELSE NoMatch
          [] n.t = "bol" ->
                IF i = 0 THEN Call(rest, s, i, caps, ic) ELSE NoMatch
          [] n.t = "eol" ->
                IF i = Len(s) THEN Call(rest, s, i, caps, ic) ELSE NoMatch
          [] n.t = "open" ->
                Call(rest, s, i, [caps EXCEPT ![n.k] = <<i, -1>>], ic)
          [] n.t = "close" ->
                Call(rest, s, i, [caps EXCEPT ![n.k] = <<@[1], i>>], ic)
          [] n.t = "alt" ->
                With(Call(n.alts[1] \o rest, s, i, caps, ic),
                     LAMBDA first :
                        IF first.ok \/ Len(n.alts) = 1 THEN first
                        ELSE Call(<<Alt(Tail(n.alts))>> \o rest, s, i, caps, ic))
          [] n.t = "rep" ->
                With(RunLength(n.node, s, i, ic),
                     LAMBDA run :
                        With({ c \in n.min..(IF n.max # -1 /\ n.max < run THEN n.max ELSE run) :
                                    Call(rest, s, i + c, caps, ic).ok },
                             LAMBDA good :
                                IF good = {} THEN NoMatch
                                ELSE Call(rest, s,
                                          i + (IF n.greedy THEN MaxOf(good) ELSE MinOf(good)),
                                          caps, ic)))

\* the text of group k of match m
GroupText(s, m, k) == SubSeq(s, m.caps[k][1] + 1, m.caps[k][2])

RECURSIVE Expand(_, _, _)
\* a replacement template: characters, and "\\1", "\\2" for the groups
Expand(repl, s, m) ==
    IF repl = <<>> THEN <<>>
    ELSE (IF Head(repl) = "\\1" THEN GroupText(s, m, 1)
          ELSE IF Head(repl) = "\\2" THEN GroupText(s, m, 2)
          ELSE <<Head(repl)>>)
         \o Expand(Tail(repl), s, m)

\* the offsets of s at which re matches some characters
MatchStarts(re, s, ic) ==
    { p \in 0..(Len(s) - 1) :
        With(Call(re, s, p, NoCaps, ic), LAMBDA m : m.ok /\ m.end > p) }

RECURSIVE SubFrom(_, _, _, _, _, _)
SubFrom(re, repl, s, pos, starts, ic) ==
    With({ p \in starts : p >= pos },
         LAMBDA left :
            IF left = {} THEN SubSeq(s, pos + 1, Len(s))
            ELSE With(Call(re, s, MinOf(left), NoCaps, ic),
                      LAMBDA m :
                         SubSeq(s, pos + 1, MinOf(left)) \o Expand(repl, s, m)
                         \o SubFrom(re, repl, s, m.end, starts, ic)))

\* re.sub(re, repl, s): every non-overlapping match, leftmost first, is
\* replaced.  (No pattern of the source matches the empty string.)
Sub(re, repl, s, ic) ==
    CHOOSE r \in { SubFrom(re1, repl, s1, 0, MatchStarts(re1, s1, ic), ic) :
                     re1 \in {re}, s1 \in {s} } : TRUE

\* re.search from offset pos: the leftmost match, or NoMatch
SearchFrom(re, s, pos, ic) ==
    With({ p \in pos..Len(s) : Call(re, s, p, NoCaps, ic).ok },
         LAMBDA at : IF at = {} THEN NoMatch ELSE Call(re, s, MinOf(at), NoCaps, ic))

RECURSIVE FindAllFrom(_, _, _, _)
\* re.findall of a pattern with one group: the group's text of every match
FindAllFrom(re, s, pos, ic) ==
    With(SearchFrom(re, s, pos, ic),
         LAMBDA m :
            IF ~m.ok THEN <<>>
            ELSE <<GroupText(s, m, 1)>>
                 \o (IF m.end >= Len(s) THEN <<>>
                     ELSE FindAllFrom(re, s, IF m.end > pos THEN m.end ELSE pos + 1, ic)))

\* ------------------------------------------- csv_processor.py: addresses

\* The address of a row with no Address: pandas' NaN, a float and not a str.
NaN == <<"nan">>

\* isinstance(address, str)
IsStr(address) == address # NaN

\* A text interpolated unescaped into a pattern: "." is the wildcard.
RawPattern(w) == [i \in 1..Len(w) |-> IF w[i] = "." THEN AnyChar ELSE Lit(w[i])]

\* the pattern without its \b
PatternNoBoundary(w) == RawPattern(w)

\* fr'\b{old}\b'
WordPattern(w) == <<WordB>> \o RawPattern(w) \o <<WordB>>

SpaceCls == Cls(SpaceSet, FALSE)

DigitCls == Cls(DigitSet, FALSE)

NotComma == Cls({","}, TRUE)

\* area_mappings, in the dict's order
area_mappings ==
    << <<<<"D","U","B","L","I","N"," ","1">>, <<"D","1">>>>, <<<<"D","U","B","L","I",
            "N"," ","2">>, <<"D","2">>>>, <<<<"D","U","B","L","I","N"," ","3">>, <<"D",
            "3">>>>,
       <<<<"D","U","B","L","I","N"," ","4">>, <<"D","4">>>>, <<<<"D","U","B","L","I",
               "N"," ","5">>, <<"D","5">>>>, <<<<"D","U","B","L","I","N"," ","6">>, <<"D",
               "6">>>>,
       <<<<"D","U","B","L","I","N"," ","7">>, <<"D","7">>>>, <<<<"D","U","B","L","I",
               "N"," ","8">>, <<"D","8">>>>, <<<<"D","U","B","L","I","N"," ","9">>, <<"D",
               "9">>>>,
       <<<<"D","U","B","L","I","N"," ","1","0">>, <<"D","1","0">>>>, <<<<"D","U","B",
               "L","I","N"," ","1","1">>, <<"D","1","1">>>>, <<<<"D","U","B","L","I",
               "N"," ","1","2">>, <<"D","1","2">>>>,
       <<<<"D","U","B","L","I","N"," ","1","3">>, <<"D","1","3">>>>, <<<<"D","U","B",
               "L","I","N"," ","1","4">>, <<"D","1","4">>>>, <<<<"D","U","B","L","I",
               "N"," ","1","5">>, <<"D","1","5">>>>,
       <<<<"D","U","B","L","I","N"," ","1","6">>, <<"D","1","6">>>>, <<<<"D","U","B",
               "L","I","N"," ","1","7">>, <<"D","1","7">>>>, <<<<"D","U","B","L","I",
               "N"," ","1","8">>, <<"D","1","8">>>>,
       <<<<"D","U","B","L","I","N"," ","2","0">>, <<"D","2","0">>>>, <<<<"D","U","B",
               "L","I","N"," ","2","2">>, <<"D","2","2">>>>, <<<<"D","U","B","L","I",
               "N"," ","2","4">>, <<"D","2","4">>>>,
       <<<<"B","A","C">>, <<"D","u","b","l","i","n">>>>,
       <<<<"B","A","I","L","E"," ","A","T","H","A"," ","C","L","I","A","T","H">>, <<"D",
               "u","b","l","i","n">>>>,
       <<<<"C","O"," ","D","U","B","L","I","N">>, <<"C","o","u","n","t","y"," ","D",
               "u","b","l","i","n">>>>,
       <<<<"C","O","."," ","D","U","B","L","I","N">>, <<"C","o","u","n","t","y"," ",
               "D","u","b","l","i","n">>>> >>

\* re.sub(fr'\b{old}\b', new, address, flags=re.IGNORECASE)
AreaRule(old, new, address) == Sub(WordPattern(old), new, address, TRUE)

RECURSIVE ApplyAreaRules(_, _)
ApplyAreaRules(rules, address) ==
    IF rules = <<>> THEN address
    ELSE With(AreaRule(rules[1][1], rules[1][2], address),
              LAMBDA a : ApplyAreaRules(Tail(rules), a))

standardize_dublin_areas(address) == ApplyAreaRules(area_mappings, address)

prefixes_to_remove ==
    << <<Bol>> \o Group(1, <<Alt(<<Str(<<"A","P","T">>), Str(<<"A","P","A","R","T","M",
            "E","N","T">>), Str(<<"U","N","I","T">>),
                                   Str(<<"N","O",".">>), Str(<<"F","L","A","T">>)>>)>>)
              \o <<Star(SpaceCls), Opt(Lit(".")), Star(SpaceCls),
                   Plus(DigitCls), Star(SpaceCls), Opt(Lit(",")),
                   Star(SpaceCls)>>,
       <<Bol, Plus(DigitCls), Opt(Cls(UpperSet, FALSE)), Star(SpaceCls),
         Opt(Lit(",")), Star(SpaceCls)>>,
       Str(<<"A","P","T">>) \o <<Opt(Lit(".")), Star(SpaceCls), Plus(DigitCls),
                        Star(SpaceCls), Opt(Lit("-")), Star(SpaceCls)>> >>

replacements ==
    << <<<<"R","D">>, <<"R","O","A","D">>>>, <<<<"S","T">>, <<"S","T","R","E","E","T">>>>,
             <<<<"A","V","E">>, <<"A","V","E","N","U","E">>>>,
       <<<<"A","P","T","S">>, <<"A","P","A","R","T","M","E","N","T","S">>>>, <<<<"D",
               "R">>, <<"D","R","I","V","E">>>>, <<<<"L","N">>, <<"L","A","N","E">>>>,
       <<<<"C","T">>, <<"C","O","U","R","T">>>>, <<<<"C","R","E","S">>, <<"C","R","E",
               "S","C","E","N","T">>>>, <<<<"S","Q">>, <<"S","Q","U","A","R","E">>>>,
       <<<<"P","K">>, <<"P","A","R","K">>>>, <<<<"G","D","N","S">>, <<"G","A","R","D",
               "E","N","S">>>>, <<<<"A","P","T">>, <<"A","P","A","R","T","M","E","N",
               "T">>>> >>

RECURSIVE RemoveAll(_, _, _)
\* for p in patterns: address = re.sub(p, '', address, flags=re.IGNORECASE)
RemoveAll(patterns, address, ic) ==
    IF patterns = <<>> THEN address
    ELSE With(Sub(patterns[1], <<>>, address, ic),
              LAMBDA a : RemoveAll(Tail(patterns), a, ic))

RECURSIVE ReplaceAll(_, _)
\* for abbr, full in replacements.items(): re.sub(fr'\b{abbr}\b', full, address)
ReplaceAll(pairs, address) ==
    IF pairs = <<>> THEN address
    ELSE With(Sub(WordPattern(pairs[1][1]), pairs[1][2], address, FALSE),
              LAMBDA a : ReplaceAll(Tail(pairs), a))

\* the text 'D\d{1,2}' that clean_address looks for with  in
DistrictLiteral == <<"D","\\","d","{","1",",","2","}">>

\* "Ensure it ends with Dublin, Ireland if not already present"
EnsureDublinIreland(address) ==
    With(IF ~Contains(address, <<"D","U","B","L","I","N">>) /\ ~Contains(address, DistrictLiteral)
         THEN address \o <<","," ","D","U","B","L","I","N">> ELSE address,
         LAMBDA a1 : IF ~Contains(a1, <<"I","R","E","L","A","N","D">>) THEN a1 \o <<",",
                 " ","I","R","E","L","A","N","D">> ELSE a1)

\* clean_address(address); "" when address is not a str
clean_address(address) ==
    IF ~IsStr(address) THEN <<>> ELSE
    With(Upper(address), LAMBDA a1 :
    With(RemoveAll(prefixes_to_remove, a1, TRUE), LAMBDA a2 :
    With(ReplaceAll(replacements, a2), LAMBDA a3 :
    With(Sub(<<Plus(SpaceCls), Lit(","), Plus(SpaceCls)>>, <<","," ">>, a3, FALSE), LAMBDA a4 :
    With(Sub(<<Plus(SpaceCls)>>, <<" ">>, a4, FALSE), LAMBDA a5 :
    With(standardize_dublin_areas(a5), LAMBDA a6 :
    Title(EnsureDublinIreland(a6))))))))

\* ------------------------------------- csv_processor_cases.py: addresses

markers ==
    <<<<" ","o","n"," ","l","a","n","d","s"," ","a","t"," ">>, <<" ","T","h","e"," ",
            "a","p","p","l","i","c","a","t","i","o","n"," ","s","i","t","e"," ","c",
            "o","n","s","i","s","t","s"," ","o","f"," ">>, <<" ","T","h","e"," ","L",
            "a","n","d","s"," ","c","o","m","p","r","i","s","e"," ","o","f"," ">>>>

RECURSIVE Truncate(_, _)
\* if marker.lower() in address.lower(): address = address.split(marker)[0]
Truncate(ms, address) ==
    IF ms = <<>> THEN address
    ELSE With(IF Contains(Lower(address), Lower(ms[1]))
              THEN SplitFirst(address, ms[1]) ELSE address,
              LAMBDA a : Truncate(Tail(ms), a))

EircodeCls == Cls(UpperSet \cup DigitSet, FALSE)

patterns_to_remove ==
    << <<Lit("("), Star(Cls({")"}, TRUE)), Lit(")")>>,
       Str(<<"P","r","o","t","e","c","t","e","d"," ","S","t","r","u","c","t","u","r","e">>),
       Str(<<"S","i","t","e"," ","t","o"," ","t","h","e"," ","r","e","a","r"," ","o","f">>),
       Str(<<"S","i","t","e"," ","t","o"," ","t","h","e"," ","n","o","r","t","h"," ","o","f">>),
       Str(<<"P","u","b","l","i","c"," ","g","r","a","s","s"," ","v","e","r","g","e">>),
       Str(<<"F","o","r","m","e","r">>),
       Str(<<"T","h","e"," ","a","p","p","l","i","c","a","t","i","o","n"," ","s","i","t","e">>),
       <<WordB, Cls(UpperSet, FALSE), Rep(DigitCls, 2, 2, TRUE), Star(SpaceCls),
         Rep(EircodeCls, 4, 4, TRUE), WordB>>,
       Str(<<"C","o">>) \o <<Lit("."), Star(SpaceCls)>> \o Str(<<"D","u","b","l","i","n">>),
       <<Lit("&"), Star(SpaceCls), Lit("."), Lit("."), Lit(".")>>,
       Str(<<"W","i","t","h","i","n"," ","t","h","e"," ","c","u","r","t","i","l","a",
               "g","e"," ","o","f">>),
       <<Star(NotComma), WordB>>
           \o Group(1, <<Alt(<<Str(<<"S","e","r","v","i","c","e"," ","S","t","a","t",
                   "i","o","n">>), Str(<<"P","u","b","l","i","c"," ","H","o","u","s",
                   "e">>)>>)>>)
           \o <<WordB>> >>

\* ([^,]+(?:Road|Street|Avenue|Lane))
RoadPattern ==
    Group(1, <<Plus(NotComma),
               Alt(<<Str(<<"R","o","a","d">>), Str(<<"S","t","r","e","e","t">>), Str(<<"A",
                       "v","e","n","u","e">>), Str(<<"L","a","n","e">>)>>)>>)

\* "For junctions, keep only the main road names"
Junction(address) ==
    IF Contains(Lower(address), <<"j","u","n","c","t","i","o","n">>)
    THEN With(FindAllFrom(RoadPattern, address, 0, FALSE),
              LAMBDA roads : IF roads # <<>> THEN Join(roads, <<" ","a","n","d"," ">>) ELSE address)
    ELSE address

DistrictMarks ==
    <<<<"D","U","B","L","I","N">>, <<"D","1">>, <<"D","2">>, <<"D","3">>, <<"D","4">>,
             <<"D","5">>, <<"D","6">>, <<"D","7">>, <<"D","8">>, <<"D","9">>>>

\* "Ensure it ends with Dublin, Ireland"
EnsureDublinIrelandPlanning(address) ==
    With(Upper(address), LAMBDA up :
    With(IF ~\E i \in DOMAIN DistrictMarks : Contains(up, DistrictMarks[i])
         THEN address \o <<","," ","D","u","b","l","i","n">> ELSE address,
         LAMBDA a1 : IF ~Contains(Upper(a1), <<"I","R","E","L","A","N","D">>) THEN a1 \o <<",",
                 " ","I","r","e","l","a","n","d">> ELSE a1))

\* clean_address_for_planning(address); "" when address is not a str
clean_address_for_planning(address) ==
    IF ~IsStr(address) THEN <<>> ELSE
    With(Truncate(markers, address), LAMBDA a1 :
    With(RemoveAll(patterns_to_remove, a1, TRUE), LAMBDA a2 :
    With(Junction(a2), LAMBDA a3 :
    With(Sub(<<Plus(SpaceCls)>>, <<" ">>, a3, FALSE), LAMBDA a4 :
    With(Sub(<<Lit(","), Star(SpaceCls), Lit(",")>>, <<",">>, a4, FALSE), LAMBDA a5 :
    With(Sub(<<Bol, Star(SpaceCls), Lit(","), Star(SpaceCls)>>, <<>>, a5, FALSE), LAMBDA a6 :
    With(Sub(<<Star(SpaceCls), Lit(","), Star(SpaceCls), Eol>>, <<>>, a6, FALSE), LAMBDA a7 :
    Strip(EnsureDublinIrelandPlanning(a7)))))))))



\* ------------------------------------------------------- get_coordinates

\* ,.*Dublin
CommaToDublin == <<Lit(","), Star(AnyChar)>> \o Str(<<"D","u","b","l","i","n">>)

\* ^([^,]+,[^,]+)
FirstTwoParts == <<Bol>> \o Group(1, <<Plus(NotComma), Lit(","), Plus(NotComma)>>)

\* (.*?),.*?(Dublin.*)
FirstPartAndDublin ==
    Group(1, <<LazyStar(AnyChar)>>) \o <<Lit(","), LazyStar(AnyChar)>>
        \o Group(2, Str(<<"D","u","b","l","i","n">>) \o <<Star(AnyChar)>>)

\* ([^,]+(?:Road|Street|Avenue|Lane|Rise|Park|Place|Drive|Grove|Way))
StreetPattern ==
    Group(1, <<Plus(NotComma),
               Alt(<<Str(<<"R","o","a","d">>), Str(<<"S","t","r","e","e","t">>), Str(<<"A",
                       "v","e","n","u","e">>), Str(<<"L","a","n","e">>), Str(<<"R","i",
                       "s","e">>),
                     Str(<<"P","a","r","k">>), Str(<<"P","l","a","c","e">>), Str(<<"D",
                             "r","i","v","e">>), Str(<<"G","r","o","v","e">>), Str(<<"W",
                             "a","y">>)>>)>>)

\* csv_processor.get_coordinates: what each of the three tries searches for;
\* ok is FALSE where the rewrite raises (re.match finds nothing).
TriesCsv(original_address) ==
    With(clean_address(original_address), LAMBDA cleaned :
    With(Match(FirstTwoParts, cleaned, 0, NoCaps, FALSE), LAMBDA two :
        << [ok |-> TRUE, q |-> cleaned],
           [ok |-> TRUE, q |-> Sub(CommaToDublin, <<","," ","D","u","b","l","i","n">>,
                    cleaned, FALSE)],
           [ok |-> two.ok,
            q |-> IF two.ok THEN GroupText(cleaned, two, 1) \o <<","," ","D","u","b",
                    "l","i","n",","," ","I","r","e","l","a","n","d">>
                  ELSE <<>>] >>))

\* csv_processor_cases.get_coordinates: address_variants
VariantsCases(original_address) ==
    With(clean_address_for_planning(original_address), LAMBDA cleaned :
    With(SearchFrom(StreetPattern, cleaned, 0, FALSE), LAMBDA street_match :
        << [ok |-> TRUE, q |-> cleaned],
           [ok |-> TRUE, q |-> Sub(CommaToDublin, <<","," ","D","u","b","l","i","n">>,
                    cleaned, FALSE)],
           [ok |-> TRUE,
            q |-> Sub(FirstPartAndDublin, <<"\\1", ",", " ", "\\2">>, cleaned, FALSE)] >>
        \o (IF street_match.ok
            THEN << [ok |-> TRUE,
                     q |-> GroupText(cleaned, street_match, 1) \o <<","," ","D","u",
                             "b","l","i","n",","," ","I","r","e","l","a","n","d">>] >>
            ELSE <<>>)))



\* ------------------------------------------------------------- the state

VARIABLES
    prog,       \* the script being run
    pc,         \* where it is
    run,        \* the number of the run
    file,       \* the input CSV of process_csv / process_planning_cases
    df,         \* the Address column of the DataFrame, row by row
    cache,      \* the dict cache
    disk,       \* geocoding_cache.json
    todo,       \* unique_addresses not yet iterated over
    cur,        \* the address get_coordinates was called with
    try_num,    \* get_coordinates: the index of the try / variant
    coords,     \* get_coordinates: what it returned
    calls,      \* the geocoder calls of this get_coordinates: try, query, answer
    rewrites,   \* what get_coordinates searches for, by script and address
    last_ev,    \* the last external event: a sleep, a geocoder call, a page fetch
    out,        \* the output CSV of this run
    stored,     \* history: what each address was first stored with
    failed,     \* history: addresses of this run whose every geocoder call raised
    m_dir,      \* merge_csv_files: the files of input_directory
    m_left,     \* csv_files not yet read
    m_dfs,      \* dfs: the names of the files read, in order
    m_out,      \* output_file
    m_ret,      \* what merge_csv_files returned
    s_url,      \* scraper: how many urls have been fetched
    all_cases,  \* scraper: all_cases
    s_csv,      \* planning_cases_merged.csv
    t_in,       \* a text function's argument
    t_out       \* a text function's result

pipeVars == <<file, df, cache, disk, todo, cur, try_num, coords, calls, out, stored, failed>>

mergeVars == <<m_dir, m_left, m_dfs, m_out, m_ret>>

scrapeVars == <<s_url, all_cases, s_csv>>

textVars == <<t_in, t_out>>

vars == <<prog, pc, run, last_ev, rewrites, pipeVars, mergeVars, scrapeVars, textVars>>

\* ------------------------------------------------------------ the bounds

\* rows of an input CSV
MaxRows == 2

\* runs of process_csv / process_planning_cases against one cache file
MaxRuns == 2

\* rows of a CSV file of the directory merge_csv_files reads
MaxFileRows == 1

\* div.cell blocks on one scraped page
MaxDivs == 2

\* cases scraped in all
MaxCases == 3

\* pieces a text argument is put together from
MaxPieces == 2

\* -------------------------------------------------------------- geocoding

\* Python's None, and a float in hundredths of a degree
None == [none |-> TRUE, v |-> 0]

Float(n) == [none |-> FALSE, v |-> n]

\* a (latitude, longitude) pair: a tuple until json writes it, a list when read back
Pair(py, lat, lon) == [py |-> py, lat |-> lat, lon |-> lon]

NonePair == Pair("tuple", None, None)

\* What geolocator.geocode answers: no location, a location, or an exception
\* (GeocoderTimedOut / GeocoderServiceError, or any other Exception).
Locations ==
    { [r |-> "location", lat |-> 5334, lon |-> -626],    \* Dublin
      [r |-> "location", lat |-> 5285, lon |-> -655],    \* Wicklow hills
      [r |-> "location", lat |-> 5190, lon |-> -847] }   \* Cork

Responses ==
    { [r |-> "none", lat |-> 0, lon |-> 0],
      [r |-> "geocoder_error", lat |-> 0, lon |-> 0],
      [r |-> "other_error", lat |-> 0, lon |-> 0] } \cup Locations

Raises(resp) == resp.r \in {"geocoder_error", "other_error"}

\* the "approximate bounding box" of csv_processor.get_coordinates
InBoxCsv(loc) ==
    /\ 5290 <= loc.lat /\ loc.lat <= 5370
    /\ -650 <= loc.lon /\ loc.lon <= -600

\* the "expanded bounding box" of csv_processor_cases.get_coordinates
InBoxCases(loc) ==
    /\ 5280 <= loc.lat /\ loc.lat <= 5380
    /\ -660 <= loc.lon /\ loc.lon <= -590

InBox(p, loc) == IF p = "process_csv" THEN InBoxCsv(loc) ELSE InBoxCases(loc)

\* a get_coordinates that returns any location, wherever it lies
AcceptsAnywhere(p, resp) == resp.r = "location"

\* if location: ... return location.latitude, location.longitude
Accepts(p, resp) == resp.r = "location" /\ InBox(p, resp)

Addr2 == <<"H","o","w","t","h"," ","D","u","b","l","i","n"," ","I","r","e","l","a","n","d">>

Addr3 == <<"1"," ","O","a","k"," ","R","o","a","d",","," ","S","w","o","r","d","s">>

\* the Address values of the input files
RawAddresses == {Addr2, Addr3}

\* The tries of each address.  They depend on the address alone, and are
\* worked out once, when the state is set up.
TriesTable ==
    [csv |-> (Addr2 :> TriesCsv(Addr2)) @@ (Addr3 :> TriesCsv(Addr3)) @@ (NaN :> TriesCsv(NaN)),
     cases |-> (Addr2 :> VariantsCases(Addr2)) @@ (Addr3 :> VariantsCases(Addr3))]

Tries(p, address) ==
    IF p = "process_csv" THEN rewrites.csv[address] ELSE rewrites.cases[address]

\* ------------------------------------------------------------ the cache

EmptyDict == [k \in {} |-> NonePair]

\* a dict that forgets its other keys when one is set
DictOnly(d, key, value) == (key :> value)

\* cache[key] = value
DictSet(d, key, value) == (key :> value) @@ d

\* json.dump writes a float key as text, NaN as "NaN"; a str key as it is.
\* A dict holding both the key NaN and the key "NaN" is written with the
\* name twice, and json.load keeps the later one: the float's.
JsonKey(k) == IF k = NaN THEN <<"N","a","N">> ELSE k

JsonDump(d) ==
    [j \in { JsonKey(k) : k \in DOMAIN d } |->
        LET k == IF j = JsonKey(NaN) /\ NaN \in DOMAIN d THEN NaN ELSE j
        IN  Pair("list", d[k].lat, d[k].lon)]

\* a load_cache that never finds the file
load_nothing(file_on_disk) == EmptyDict

\* load_cache()
load_cache(file_on_disk) == IF file_on_disk.exists THEN file_on_disk.data ELSE EmptyDict

\* save_cache(cache)
save_cache(d) == [exists |-> TRUE, data |-> JsonDump(d)]

\* ----------------------------------------------------- the input CSV file

RECURSIVE SeqsUpTo(_, _)
\* the sequences over S of length at most n
SeqsUpTo(S, n) ==
    IF n = 0 THEN {<<>>}
    ELSE LET shorter == SeqsUpTo(S, n - 1)
         IN  shorter \cup { Append(q, x) : q \in shorter, x \in S }

\* pd.read_csv raises on a file that is missing or is no CSV; a row's Address
\* is a non-empty str or NaN (pandas reads an empty field as NaN).
Files ==
    { [readable |-> FALSE, rows |-> <<>>] }
    \cup { [readable |-> TRUE, rows |-> r] : r \in SeqsUpTo(RawAddresses \cup {NaN}, MaxRows) }

Pipeline == {"process_csv", "process_planning_cases"}

\* df['Address'].unique()  /  df.iloc[:, 1].dropna().unique()
Unique(p, rows) ==
    LET all == { rows[i] : i \in DOMAIN rows }
    IN  IF p = "process_csv" THEN all ELSE all \ {NaN}

\* bool(address): a non-empty str, or NaN (a non-zero float)
Truthy(address) == address # <<>>

NoOutput == [written |-> FALSE, rows |-> <<>>]



\* ------------------------------- process_csv and process_planning_cases

\* pd.read_csv(input_file, dtype=str, low_memory=False), outside any try
ReadCsv ==
    /\ prog \in Pipeline /\ pc = "start"
    /\ IF file.readable
       THEN df' = file.rows /\ pc' = "load"
       ELSE df' = df /\ pc' = "raised"
    /\ UNCHANGED <<prog, run, last_ev, rewrites, file, cache, disk, todo, cur, try_num, coords,
                   calls, out, stored, failed, mergeVars, scrapeVars, textVars>>

\* cache = load_cache()
\* unique_addresses = list(set(<the addresses>) - set(cache.keys()))
LoadCache ==
    /\ prog \in Pipeline /\ pc = "load"
    /\ cache' = load_cache(disk)
    /\ todo' = Unique(prog, df) \ DOMAIN cache'
    /\ pc' = "loop"
    /\ UNCHANGED <<prog, run, last_ev, rewrites, file, df, disk, cur, try_num, coords,
                   calls, out, stored, failed, mergeVars, scrapeVars, textVars>>

\* for address in tqdm(unique_addresses): if address and address not in cache:
\* the list is in the order of a set, which is any order
NextAddress ==
    /\ prog \in Pipeline /\ pc = "loop"
    /\ \E address \in todo :
        /\ todo' = todo \ {address}
        /\ IF Truthy(address) /\ address \notin DOMAIN cache
           THEN cur' = address /\ try_num' = 1 /\ calls' = <<>> /\ pc' = "try"
           ELSE UNCHANGED <<cur, try_num, calls, pc>>
    /\ UNCHANGED <<prog, run, last_ev, rewrites, file, df, cache, disk, coords,
                   out, stored, failed, mergeVars, scrapeVars, textVars>>

\* a get_coordinates that, out of tries, returns what it returned last
GiveUpStale(k) ==
    IF k < Len(Tries(prog, cur))
    THEN try_num' = k + 1 /\ coords' = coords /\ pc' = "try"
    ELSE try_num' = k /\ coords' = coords /\ pc' = "store"

\* the step after a try that found nothing: the next try, or
\* "Could not find coordinates" and return None, None
GiveUp(k) ==
    IF k < Len(Tries(prog, cur))
    THEN try_num' = k + 1 /\ coords' = coords /\ pc' = "try"
    ELSE try_num' = k /\ coords' = NonePair /\ pc' = "store"

\* a get_coordinates that sleeps before its first try only
PrepareSleepOnce ==
    /\ prog \in Pipeline /\ pc = "try"
    /\ IF Tries(prog, cur)[try_num].ok
       THEN /\ last_ev' = IF try_num = 1 THEN "sleep1" ELSE last_ev
            /\ pc' = "call" /\ UNCHANGED <<try_num, coords>>
       ELSE last_ev' = last_ev /\ GiveUp(try_num)
    /\ UNCHANGED <<prog, run, rewrites, file, df, cache, disk, todo, cur,
                   calls, out, stored, failed, mergeVars, scrapeVars, textVars>>

\* get_coordinates, one try up to the call: the rewrite of the address, then
\* time.sleep(1)  # Respect usage limits
\* In csv_processor a rewrite that raises is caught ("except Exception:
\* continue") before the sleep.
Prepare ==
    /\ prog \in Pipeline /\ pc = "try"
    /\ IF Tries(prog, cur)[try_num].ok
       THEN last_ev' = "sleep1" /\ pc' = "call" /\ UNCHANGED <<try_num, coords>>
       ELSE last_ev' = last_ev /\ GiveUp(try_num)
    /\ UNCHANGED <<prog, run, rewrites, file, df, cache, disk, todo, cur,
                   calls, out, stored, failed, mergeVars, scrapeVars, textVars>>

\* what get_coordinates does with the geocoder's answer: return the
\* coordinates of a location inside the box; otherwise, and on any exception
\* (both except clauses continue), go on
AfterAnswer(resp) ==
    IF Accepts(prog, resp)
    THEN /\ coords' = Pair("tuple", Float(resp.lat), Float(resp.lon))
         /\ try_num' = try_num
         /\ pc' = "store"
    ELSE GiveUp(try_num)

\* location = geolocator.geocode(search_address)
Geocode ==
    /\ prog \in Pipeline /\ pc = "call"
    /\ \E resp \in Responses :
        /\ calls' = Append(calls, [k |-> try_num, q |-> Tries(prog, cur)[try_num].q,
                                   resp |-> resp])
        /\ AfterAnswer(resp)
    /\ last_ev' = "geocode"
    /\ UNCHANGED <<prog, run, rewrites, file, df, cache, disk, todo, cur,
                   out, stored, failed, mergeVars, scrapeVars, textVars>>

AllRaised(cs) == cs # <<>> /\ \A i \in DOMAIN cs : Raises(cs[i].resp)

\* coords = get_coordinates(address, geolocator); cache[address] = coords
\* (get_coordinates has returned: its try and its calls are no more)
Store ==
    /\ prog \in Pipeline /\ pc = "store"
    /\ cache' = DictSet(cache, cur, coords)
    /\ stored' = IF cur \in DOMAIN stored THEN stored ELSE DictSet(stored, cur, coords)
    /\ failed' = IF AllRaised(calls) THEN failed \cup {cur} ELSE failed
    /\ try_num' = 0 /\ calls' = <<>>
    /\ pc' = "save"
    /\ UNCHANGED <<prog, run, last_ev, rewrites, file, df, disk, todo, cur, coords,
                   out, mergeVars, scrapeVars, textVars>>

\* save_cache(cache)
Save ==
    /\ prog \in Pipeline /\ pc = "save"
    /\ disk' = save_cache(cache)
    /\ pc' = "loop"
    /\ UNCHANGED <<prog, run, last_ev, rewrites, file, df, cache, todo, cur, try_num, coords,
                   calls, out, stored, failed, mergeVars, scrapeVars, textVars>>

\* if address in cache: df.at[idx, 'Latitude'], df.at[idx, 'Longitude'] = cache[address]
\* A NaN is found in the dict only when it is the very object that is the key,
\* which nothing in the code decides: nan_found is either.
Row(address, d, nan_found) ==
    IF address \in DOMAIN d /\ (IsStr(address) \/ nan_found)
    THEN [address |-> address, lat |-> d[address].lat, lon |-> d[address].lon]
    ELSE [address |-> address, lat |-> None, lon |-> None]

\* "Update DataFrame coordinates", then df.to_csv(output_file, index=False)
UpdateAndWrite ==
    /\ prog \in Pipeline /\ pc = "loop" /\ todo = {}
    /\ \E nan_found \in BOOLEAN :
        out' = [written |-> TRUE,
                rows |-> [i \in DOMAIN df |-> Row(df[i], cache, nan_found)]]
    /\ pc' = "done"
    /\ UNCHANGED <<prog, run, last_ev, rewrites, file, df, cache, disk, todo, cur, try_num,
             coords,
                   calls, stored, failed, mergeVars, scrapeVars, textVars>>

\* a later run of either script in the same directory, on some input file
NextRun ==
    /\ prog \in Pipeline /\ pc = "done" /\ run < MaxRuns
    /\ run' = run + 1
    /\ prog' \in Pipeline
    /\ file' \in Files
    /\ pc' = "start"
    /\ df' = <<>> /\ cache' = EmptyDict /\ todo' = {} /\ cur' = <<>> /\ try_num' = 0
    /\ coords' = NonePair /\ calls' = <<>> /\ out' = NoOutput /\ failed' = {}
    /\ UNCHANGED <<last_ev, rewrites, disk, stored, mergeVars, scrapeVars, textVars>>



\* ------------------------------------------------------- merge_csv_files

FileNames == {<<"a",".","c","s","v">>, <<"b",".","c","s","v">>, <<"n","o","t","e","s",
        ".","t","x","t">>}

\* a file of the directory: whether pd.read_csv can read it, and its rows
FileKinds ==
    { [readable |-> FALSE, nrows |-> 0] }
    \cup { [readable |-> TRUE, nrows |-> n] : n \in 0..MaxFileRows }

Dirs == UNION { [names -> FileKinds] : names \in SUBSET FileNames }

\* Path(input_directory).glob('*.csv')
Glob(dir) == { name \in DOMAIN dir : EndsWith(name, <<".","c","s","v">>) }

RowsOf(dir, name) == [i \in 1..dir[name].nrows |-> <<name, i>>]

\* a concat that keeps the first frame only
ConcatFirst(dir, names) == RowsOf(dir, Head(names))

RECURSIVE Concat(_, _)
\* pd.concat(dfs, axis=0, ignore_index=True)
Concat(dir, names) ==
    IF names = <<>> THEN <<>>
    ELSE RowsOf(dir, Head(names)) \o Concat(dir, Tail(names))

\* csv_files = list(...glob('*.csv')); if len(csv_files) == 0: return False
MergeGlob ==
    /\ prog = "merge" /\ pc = "start"
    /\ IF Glob(m_dir) = {}
       THEN m_ret' = "False" /\ pc' = "done" /\ m_left' = m_left
       ELSE m_ret' = m_ret /\ pc' = "read" /\ m_left' = Glob(m_dir)
    /\ UNCHANGED <<prog, run, last_ev, rewrites, pipeVars, m_dir, m_dfs, m_out, scrapeVars,
             textVars>>

\* a merge_csv_files that lets the failure of a read go up
ReadFailedFatal == pc' = "raised" /\ m_dfs' = m_dfs

\* except Exception as e: print(f"Error reading ..."); continue
ReadFailed == pc' = "read" /\ m_dfs' = m_dfs

\* for file in csv_files: try: df = pd.read_csv(file, encoding='latin-1'); dfs.append(df)
\* (glob lists the files in any order)
MergeRead ==
    /\ prog = "merge" /\ pc = "read"
    /\ \E name \in m_left :
        /\ m_left' = m_left \ {name}
        /\ IF m_dir[name].readable
           THEN m_dfs' = Append(m_dfs, name) /\ pc' = "read"
           ELSE ReadFailed
    /\ UNCHANGED <<prog, run, last_ev, rewrites, pipeVars, m_dir, m_out, m_ret, scrapeVars,
             textVars>>

\* if not dfs: return False
\* merged_df = pd.concat(...); merged_df.to_csv(output_file, ...); return True
\* and, when to_csv raises, the outer "except Exception: return False"
MergeWrite ==
    /\ prog = "merge" /\ pc = "read" /\ m_left = {}
    /\ IF m_dfs = <<>>
       THEN m_ret' = "False" /\ m_out' = m_out
       ELSE \E written \in BOOLEAN :
              IF written
              THEN m_out' = [written |-> TRUE, rows |-> Concat(m_dir, m_dfs)] /\ m_ret' = "True"
              ELSE m_out' = m_out /\ m_ret' = "False"
    /\ pc' = "done"
    /\ UNCHANGED <<prog, run, last_ev, rewrites, pipeVars, m_dir, m_left, m_dfs, scrapeVars,
             textVars>>

\* ---------------------------------------- scrapping_board_na_pleanala.py

\* the urls of main
NumUrls == 6

\* a div.cell of a page: whether it holds an a.card-item, its "Case
\* reference:" ('' without one) and its title
Divs ==
    { [link |-> FALSE, reference |-> "", title |-> ""] }
    \cup { [link |-> TRUE, reference |-> r, title |-> t] : r \in {"", "ABP-1"}, t \in {"a",
             "b"} }

\* what requests.get gives: an exception, a status other than 200, or a page
PageAnswers ==
    { [kind |-> "exception", divs |-> <<>>], [kind |-> "status", divs |-> <<>>] }
    \cup { [kind |-> "page", divs |-> d] : d \in SeqsUpTo(Divs, MaxDivs) }

RECURSIVE scrape_cases_from_html(_)
\* a case for every div.cell that has an a.card-item
scrape_cases_from_html(divs) ==
    IF divs = <<>> THEN <<>>
    ELSE (IF Head(divs).link
          THEN << [reference |-> Head(divs).reference, title |-> Head(divs).title] >>
          ELSE <<>>)
         \o scrape_cases_from_html(Tail(divs))

\* if response.status_code != 200: return []
scrape_cases_from_url(answer) ==
    IF answer.kind = "status" THEN <<>> ELSE scrape_cases_from_html(answer.divs)

\* cases = scrape_cases_from_url(url); all_cases.extend(cases)
Fetch ==
    /\ prog = "scraper" /\ pc \in {"start", "fetch"}
    /\ \E answer \in PageAnswers :
        IF answer.kind = "exception"
        THEN pc' = "raised" /\ UNCHANGED <<s_url, all_cases>>
        ELSE /\ Len(all_cases) + Len(scrape_cases_from_url(answer)) <= MaxCases
             /\ all_cases' = all_cases \o scrape_cases_from_url(answer)
             /\ s_url' = s_url + 1
             /\ pc' = "sleep"
    /\ last_ev' = "fetch"
    /\ UNCHANGED <<prog, run, rewrites, pipeVars, mergeVars, s_csv, textVars>>

\* time.sleep(2), and on to the next url
SleepAfterFetch ==
    /\ prog = "scraper" /\ pc = "sleep"
    /\ last_ev' = "sleep2"
    /\ pc' = IF s_url < NumUrls THEN "fetch" ELSE "save"
    /\ UNCHANGED <<prog, run, rewrites, pipeVars, mergeVars, scrapeVars, textVars>>

\* drop_duplicates(subset=['reference'], keep='last')
drop_duplicates_last(rows) ==
    LET keep == { i \in DOMAIN rows :
                    \A j \in (i + 1)..Len(rows) : rows[j].reference # rows[i].reference }
        nth(n) == CHOOSE i \in keep : Cardinality({ j \in keep : j < i }) = n - 1
    IN  [n \in 1..Cardinality(keep) |-> rows[nth(n)]]

\* df.drop_duplicates(subset=['reference']): the first row of each reference
drop_duplicates(rows) ==
    LET keep == { i \in DOMAIN rows :
                    \A j \in 1..(i - 1) : rows[j].reference # rows[i].reference }
        nth(n) == CHOOSE i \in keep : Cardinality({ j \in keep : j < i }) = n - 1
    IN  [n \in 1..Cardinality(keep) |-> rows[nth(n)]]

\* df = save_to_csv(all_cases); df_unique = df.drop_duplicates(...)
\* if len(df_unique) < len(df): df_unique.to_csv('planning_cases_merged.csv', ...)
SavedCsv(cases) ==
    LET df_unique == drop_duplicates(cases)
    IN  IF Len(df_unique) < Len(cases) THEN df_unique ELSE cases

\* if all_cases: ...
SaveCases ==
    /\ prog = "scraper" /\ pc = "save"
    /\ s_csv' = IF all_cases # <<>>
                THEN [written |-> TRUE, rows |-> SavedCsv(all_cases)]
                ELSE s_csv
    /\ pc' = "done"
    /\ UNCHANGED <<prog, run, last_ev, rewrites, pipeVars, mergeVars, s_url, all_cases,
             textVars>>

\* ------------------------------------------------- the text functions alone

Pieces ==
    << <<"D","u","b","l","i","n"," ","1">>, <<"D","u","b","l","i","n"," ","4">>, <<"d",
            "u","b","l","i","n"," ","1","2">>, <<"D","u","b","l","i","n"," ","1","9">>,
             <<"2">>, <<"x">>, <<" ">>, <<","," ">>,
       <<"1","2"," ","M","a","i","n"," ","S","t",","," ">>, <<"B","A","C">>, <<"C","o",
               "."," ">>, <<"I","r","e","l","a","n","d">>, <<"D","u","b","l","i","n",
               " ","R","o","a","d",","," ">>, <<"C","o","r","k">>, <<"D","4">>, <<"A",
               "p","t"," ","3"," ">> >>

RECURSIVE TextsUpTo(_)
\* the texts put together from at most n pieces
TextsUpTo(n) ==
    IF n = 0 THEN {<<>>}
    ELSE LET shorter == TextsUpTo(n - 1)
         IN  shorter \cup { t \o Pieces[i] : t \in shorter, i \in DOMAIN Pieces }

TextInputs == TextsUpTo(MaxPieces)

Standardize ==
    /\ prog = "text" /\ pc = "start"
    /\ t_out' = standardize_dublin_areas(t_in)
    /\ pc' = "standardized"
    /\ UNCHANGED <<prog, run, last_ev, rewrites, pipeVars, mergeVars, scrapeVars, t_in>>

CleanAddress ==
    /\ prog = "text" /\ pc = "start"
    /\ t_out' = clean_address(t_in)
    /\ pc' = "cleaned"
    /\ UNCHANGED <<prog, run, last_ev, rewrites, pipeVars, mergeVars, scrapeVars, t_in>>

CleanAddressForPlanning ==
    /\ prog = "text" /\ pc = "start"
    /\ t_out' = clean_address_for_planning(t_in)
    /\ pc' = "cleaned_for_planning"
    /\ UNCHANGED <<prog, run, last_ev, rewrites, pipeVars, mergeVars, scrapeVars, t_in>>

\* ------------------------------------------------------ the specifications

NoFile == [readable |-> FALSE, rows |-> <<>>]

Rest ==
    /\ pc = "start" /\ run = 1 /\ last_ev = "none"
    /\ df = <<>> /\ cache = EmptyDict /\ disk = [exists |-> FALSE, data |-> EmptyDict]
    /\ todo = {} /\ cur = <<>> /\ try_num = 0 /\ coords = NonePair /\ calls = <<>>
    /\ out = NoOutput /\ stored = EmptyDict /\ failed = {}
    /\ m_left = {} /\ m_dfs = <<>> /\ m_out = NoOutput /\ m_ret = "none"
    /\ s_url = 0 /\ all_cases = <<>> /\ s_csv = NoOutput
    /\ t_out = <<>>

\* one of the scripts is started, on some input
Init ==
    /\ rewrites = TriesTable
    /\ prog \in {"merge", "process_csv", "process_planning_cases", "scraper"}
    /\ file \in (IF prog \in Pipeline THEN Files ELSE {NoFile})
    /\ m_dir \in (IF prog = "merge" THEN Dirs ELSE {EmptyDict})
    /\ t_in = <<>>
    /\ Rest

Next ==
    \/ ReadCsv \/ LoadCache \/ NextAddress \/ Prepare \/ Geocode
    \/ Store \/ Save \/ UpdateAndWrite \/ NextRun
    \/ MergeGlob \/ MergeRead \/ MergeWrite
    \/ Fetch \/ SleepAfterFetch \/ SaveCases

Spec == Init /\ [][Next]_vars

\* a text function is applied to some text
InitText ==
    /\ rewrites = TriesTable
    /\ prog = "text"
    /\ file = NoFile
    /\ m_dir = EmptyDict
    /\ t_in \in TextInputs
    /\ Rest

NextText == Standardize \/ CleanAddress \/ CleanAddressForPlanning

SpecText == InitText /\ [][NextText]_vars



\* ---------------------------------------------------------- the properties

\* The hardcoded bounding box of script p, as the sources write it (in
\* hundredths of a degree): 52.9..53.7 by -6.5..-6.0 in csv_processor,
\* 52.8..53.8 by -6.6..-5.9 in csv_processor_cases.
InsideBox(p, resp) ==
    /\ resp.r = "location"
    /\ IF p = "process_csv"
       THEN resp.lat \in 5290..5370 /\ resp.lon \in -650..-600
       ELSE resp.lat \in 5280..5380 /\ resp.lon \in -660..-590

\* the candidates of the address in hand that could be built
Candidates == { k \in DOMAIN Tries(prog, cur) : Tries(prog, cur)[k].ok }

\* C1: get_coordinates queries the geocoder with the candidates of the address
\* in the order of their list; it returns the coordinates of the first answer
\* inside the box and queries nothing after it; it returns (None, None) only
\* when every candidate was queried and none was answered inside the box.
C1_FirstInBoxInOrder ==
    (prog \in Pipeline /\ pc \in {"try", "call", "store"}) =>
        /\ \A i \in DOMAIN calls :
            /\ calls[i].k \in Candidates
            /\ calls[i].q = Tries(prog, cur)[calls[i].k].q
            /\ \A j \in DOMAIN calls : i < j => calls[i].k < calls[j].k
            /\ InsideBox(prog, calls[i].resp) => (i = Len(calls) /\ pc = "store")
        /\ pc = "store" =>
            IF calls # <<>> /\ InsideBox(prog, calls[Len(calls)].resp)
            THEN coords = Pair("tuple", Float(calls[Len(calls)].resp.lat),
                               Float(calls[Len(calls)].resp.lon))
            ELSE /\ coords = NonePair
                 /\ { calls[i].k : i \in DOMAIN calls } = Candidates

\* C1, its case: an answer outside the box, then a later candidate's inside it
C1_Witness ==
    /\ prog \in Pipeline /\ pc = "store"
    /\ Len(calls) >= 2
    /\ calls[1].resp.r = "location" /\ ~InsideBox(prog, calls[1].resp)
    /\ coords # NonePair
    /\ Len(calls) < Len(Tries(prog, cur))

\* C2: once an address string has been geocoded and stored, no run that
\* loaded the saved cache, nor the rest of the same run, calls the geocoder for
\* it again, and every row with that address in any output written since
\* carries the latitude and longitude it was stored with.
C2_CacheRoundTrip ==
    prog \in Pipeline =>
        /\ (pc \in {"try", "call", "store"} /\ IsStr(cur)) => cur \notin DOMAIN stored
        /\ out.written =>
            \A i \in DOMAIN out.rows :
                (IsStr(df[i]) /\ df[i] \in DOMAIN stored) =>
                    /\ out.rows[i].address = df[i]
                    /\ out.rows[i].lat = stored[df[i]].lat
                    /\ out.rows[i].lon = stored[df[i]].lon

\* C2, its case: a later run has written a row whose coordinates came from the
\* cache file (json reads a pair back as a list), and they are no null pair
C2_Witness ==
    /\ prog \in Pipeline /\ run = 2 /\ pc = "done"
    /\ \E i \in DOMAIN out.rows :
        /\ IsStr(df[i]) /\ df[i] \in DOMAIN cache
        /\ cache[df[i]].py = "list"
        /\ out.rows[i].lat # None

\* C3: during a run of process_csv or process_planning_cases every key of the
\* cache, the loaded ones included, stays in it with its value unchanged: the
\* cache only gains keys.
C3_AppendOnly ==
    [][ (prog \in Pipeline /\ run' = run) =>
            \A key \in DOMAIN cache : key \in DOMAIN cache' /\ cache'[key] = cache[key] ]_vars

\* C3, its case: the cache holds a loaded entry and one this run added
C3_Witness ==
    /\ prog \in Pipeline /\ pc = "save"
    /\ \E loaded, added \in DOMAIN cache :
        cache[loaded].py = "list" /\ cache[added].py = "tuple"

\* C4: when every geocoder call for an address raised, get_coordinates returns
\* (None, None), the cache holds the null pair under that address, and the
\* script does not stop: every address of the file stays either cached, in
\* hand, or still to be iterated over.
C4_AllRaisedIsNullPair ==
    prog \in Pipeline =>
        /\ (pc = "store" /\ AllRaised(calls)) => coords = NonePair
        /\ \A address \in failed :
            /\ address \in DOMAIN cache
            /\ cache[address].lat = None /\ cache[address].lon = None
        /\ failed # {} =>
            /\ pc # "raised"
            /\ \A address \in Unique(prog, df) :
                address \in DOMAIN cache \/ address \in todo \/ address = cur

\* C4, its case: after an address whose every call raised, another is geocoded
C4_Witness ==
    /\ prog \in Pipeline /\ pc = "call"
    /\ failed # {} /\ cur \notin failed
    /\ \E address \in failed : IsStr(address)

\* C5: a failure cannot stop merge_csv_files, and no answer of the geocoder can
\* stop process_csv or process_planning_cases; but the one read of their input
\* CSV is outside any try: when it fails the script stops there, before the
\* cache is loaded, with no geocoder call made and no output written.  A run
\* that does not stop there writes a row for every row it read.
C5_OnlyTheInputReadIsFatal ==
    /\ prog = "merge" => pc # "raised"
    /\ (prog = "merge" /\ pc = "done") => m_ret \in {"True", "False"}
    /\ (prog \in Pipeline /\ pc = "raised") =>
        /\ ~file.readable
        /\ df = <<>> /\ cache = EmptyDict /\ calls = <<>>
        /\ ~out.written
    /\ (prog \in Pipeline /\ pc = "done") =>
        /\ out.written
        /\ Len(out.rows) = Len(df)

\* C5, its case: a script stopped at its input file, in a directory where an
\* earlier run had geocoded
C5_Witness ==
    /\ prog \in Pipeline /\ pc = "raised"
    /\ ~file.readable /\ disk.exists

\* C5 as the specification states it: merge_csv_files, process_csv and
\* process_planning_cases never stop on a failure, and finish with an output.
C5_NeverFatal ==
    prog \in {"merge"} \cup Pipeline => pc # "raised"

\* C6: a geocoder call is made only straight after the 1-second sleep, so that
\* no two calls go without a sleep between them; and the scraper fetches a page
\* only at its start or straight after the 2-second sleep that follows the
\* fetch before.
C6_SleepBeforeEachCall ==
    [][ /\ Len(calls') > Len(calls) => last_ev = "sleep1"
        /\ s_url' > s_url => (last_ev = "sleep2" \/ (s_url = 0 /\ last_ev = "none")) ]_vars

\* C6, its case: a second geocoder call for one address is about to be made,
\* straight after the sleep, with another address geocoded before it
C6_Witness ==
    /\ prog \in Pipeline /\ pc = "call"
    /\ Len(calls) >= 1 /\ last_ev = "sleep1"
    /\ DOMAIN cache # {}

\* C6, the scraper's case: a page is fetched after another
C6_WitnessScraper ==
    /\ prog = "scraper" /\ pc = "sleep"
    /\ s_url >= 2 /\ last_ev = "fetch"

\* the first case scraped with a reference
FirstScraped(reference) ==
    all_cases[CHOOSE i \in DOMAIN all_cases :
                /\ all_cases[i].reference = reference
                /\ \A j \in 1..(i - 1) : all_cases[j].reference # reference]

\* C7: when main has finished with a case scraped, planning_cases_merged.csv
\* holds every reference scraped, the empty one included, in one row only, and
\* that row is the first case scraped with the reference.
C7_UniqueReferences ==
    (prog = "scraper" /\ pc = "done" /\ all_cases # <<>>) =>
        /\ s_csv.written
        /\ \A i, j \in DOMAIN s_csv.rows :
            s_csv.rows[i].reference = s_csv.rows[j].reference => i = j
        /\ \A i \in DOMAIN s_csv.rows :
            /\ \E j \in DOMAIN all_cases : all_cases[j].reference = s_csv.rows[i].reference
            /\ s_csv.rows[i] = FirstScraped(s_csv.rows[i].reference)
        /\ \A j \in DOMAIN all_cases :
            \E i \in DOMAIN s_csv.rows : s_csv.rows[i].reference = all_cases[j].reference

\* C7, its case: two different cases without a reference were scraped
C7_Witness ==
    /\ prog = "scraper" /\ pc = "done" /\ s_csv.written
    /\ \E i, j \in DOMAIN all_cases :
        /\ i < j
        /\ all_cases[i].reference = "" /\ all_cases[j].reference = ""
        /\ all_cases[i].title # all_cases[j].title

\* the district numbers of area_mappings
Districts ==
    { <<"1">>, <<"2">>, <<"3">>, <<"4">>, <<"5">>, <<"6">>, <<"7">>, <<"8">>, <<"9">>,
             <<"1","0">>, <<"1","1">>, <<"1","2">>,
      <<"1","3">>, <<"1","4">>, <<"1","5">>, <<"1","6">>, <<"1","7">>, <<"1","8">>, <<"2",
              "0">>, <<"2","2">>, <<"2","4">> }

\* whether position i of s (from 1) has a word character on one side only
EdgeOfWord(s, i) ==
    (i > 1 /\ s[i - 1] \in WordSet) # (i <= Len(s) /\ s[i] \in WordSet)

\* whether "Dublin n" stands at position i of s as a whole word, in any case
DistrictAt(s, i, n) ==
    /\ i + 6 + Len(n) <= Len(s)
    /\ Lower(SubSeq(s, i, i + 6 + Len(n))) = <<"d","u","b","l","i","n"," ">> \o n
    /\ EdgeOfWord(s, i) /\ EdgeOfWord(s, i + 7 + Len(n))

RECURSIVE DistrictsRewritten(_, _)
\* s from position i on, each whole-word "Dublin n" of the table made "Dn"
DistrictsRewritten(s, i) ==
    IF i > Len(s) THEN <<>>
    ELSE IF \E n \in Districts : DistrictAt(s, i, n)
         THEN LET n == CHOOSE d \in Districts : DistrictAt(s, i, d)
              IN  <<"D">> \o n \o DistrictsRewritten(s, i + 7 + Len(n))
         ELSE <<s[i]>> \o DistrictsRewritten(s, i + 1)

\* the rules of area_mappings that are no district's
OtherAreaRules == SubSeq(area_mappings, Cardinality(Districts) + 1, Len(area_mappings))

\* C8: standardize_dublin_areas makes every whole-word occurrence of
\* "Dublin N", in any case, "DN" for the district numbers N of its table and
\* for no other; "Dublin 4" becomes "D4", and "Dublin 12" becomes "D12" with
\* the rule of "Dublin 1" leaving it alone.  (The four rules that are no
\* district's work on the result.)
C8_DistrictsStandardized ==
    /\ pc = "standardized" =>
        t_out = ApplyAreaRules(OtherAreaRules, DistrictsRewritten(t_in, 1))
    /\ (pc = "standardized" /\ t_in = <<"D","u","b","l","i","n"," ","4">>) => t_out = <<"D",
            "4">>
    /\ (pc = "standardized" /\ t_in = <<"D","u","b","l","i","n"," ","1","2">>) => t_out = <<"D",
            "1","2">>
    /\ AreaRule(<<"D","U","B","L","I","N"," ","1">>, <<"D","1">>, <<"D","u","b","l",
            "i","n"," ","1","2">>) = <<"D","u","b","l","i","n"," ","1","2">>

\* C8, its case: "Dublin 12", put together from two pieces, was standardized
C8_Witness ==
    /\ pc = "standardized"
    /\ t_in = <<"D","u","b","l","i","n"," ","1","2">>
    /\ t_out = <<"D","1","2">>

\* the names of the CSV files of the directory whose read succeeds
ReadableCsv == { name \in DOMAIN m_dir : EndsWith(name, <<".","c","s","v">>) /\ m_dir[name].readable }

\* C9: merge_csv_files returns True exactly when a CSV file of the directory
\* was read and the output was written; the output then holds every row of
\* every file that was read, once, and no row of any other file.  With no CSV
\* file, or none that can be read, it returns False and writes nothing.
C9_MergeResult ==
    (prog = "merge" /\ pc = "done") =>
        /\ m_ret = "True" <=> (ReadableCsv # {} /\ m_out.written)
        /\ m_out.written =>
            /\ \A name \in ReadableCsv : \A n \in 1..m_dir[name].nrows :
                Cardinality({ i \in DOMAIN m_out.rows : m_out.rows[i] = <<name, n>> }) = 1
            /\ \A i \in DOMAIN m_out.rows : m_out.rows[i][1] \in ReadableCsv
        /\ ReadableCsv = {} => (m_ret = "False" /\ ~m_out.written)

\* C9, its case: two files were read, a third could not be, and the rows of
\* the two were written
C9_Witness ==
    /\ prog = "merge" /\ pc = "done" /\ m_ret = "True"
    /\ Len(m_dfs) = 2 /\ Len(m_out.rows) = 2
    /\ \E name \in DOMAIN m_dir : ~m_dir[name].readable

\* C10 as the specification states it: what clean_address and
\* clean_address_for_planning return for a string ends with "Dublin, Ireland".
C10_EndsWithDublinIreland ==
    pc \in {"cleaned", "cleaned_for_planning"} => EndsWith(t_out, <<"D","u","b","l",
            "i","n",","," ","I","r","e","l","a","n","d">>)

\* the latitude and longitude of a cached pair, a tuple or a list alike
LatLon(pair) == <<pair.lat, pair.lon>>

\* the cache of the run in hand has been loaded
CacheLoaded == prog \in Pipeline /\ pc \in {"loop", "try", "call", "store", "save", "done"}

\* what C11 says of the file and the dict
WriteThrough ==
    /\ DOMAIN disk.data \subseteq DOMAIN cache
    /\ DOMAIN cache \ DOMAIN disk.data \subseteq {cur}
    /\ \A key \in DOMAIN disk.data \cap DOMAIN cache :
        LatLon(disk.data[key]) = LatLon(cache[key])
    /\ pc \in {"loop", "done"} => DOMAIN cache = DOMAIN disk.data

\* C11 as stated: in process_csv and process_planning_cases, once the cache is
\* loaded, geocoding_cache.json never holds an entry the dict lacks and lacks
\* at most the address in hand, with the same coordinates under every key;
\* at the end of each iteration that geocoded, file and dict hold the same.
C11_WriteThrough == CacheLoaded => WriteThrough

\* C11 with no NaN address met: no NaN key in the dict, no "NaN" in the file
C11_WriteThroughWithoutNaN ==
    (CacheLoaded /\ NaN \notin DOMAIN cache /\ JsonKey(NaN) \notin DOMAIN disk.data)
        => WriteThrough

\* C11, the case of C11_WriteThroughWithoutNaN: an entry is in the dict and
\* not yet in the file, which holds an address of an earlier iteration
C11_WitnessWithoutNaN ==
    /\ CacheLoaded /\ pc = "save"
    /\ NaN \notin DOMAIN cache /\ JsonKey(NaN) \notin DOMAIN disk.data
    /\ DOMAIN disk.data # {} /\ cur \notin DOMAIN disk.data


====
